---- MODULE Spec2Model ----
(***************************************************************************)
(* Model of the connector of ibkr_order_panel_rust (src/src/connector.rs): *)
(* the bracket order submission submit_order and the quote acquisition     *)
(* market_data, each as a state machine whose steps are the await points   *)
(* of the async function.  The trading gateway client (ibapi::Client) is   *)
(* the environment: every value it hands back is drawn with \E.            *)
(*                                                                         *)
(* The handlers of router.rs reach the connector through the static        *)
(* CONNECTOR, which connector.rs does not define; Connector::new() builds  *)
(* an empty handle and connect() stores nothing.  submit_order and         *)
(* market_data are modelled for every value the field `ib` can hold: Init  *)
(* draws it from CONNECTOR.                                                *)
(*                                                                         *)
(* Prices are integers in cents.  An f64 expression of the source is       *)
(* computed exactly (as a rational) and rounded as f64::round does, half   *)
(* away from zero.                                                         *)
(***************************************************************************)
EXTENDS Integers, Sequences, FiniteSets, TLC

\* Option<T>: None and Some(x)
None == <<>>
Some(x) == <<x>>

\* ---------------------------------------------------------------- bounds
\* number of messages the market leg's status stream can deliver before it ends
MaxStatus == 2
\* largest small quantity passed to submit_order (100 is added for the scenario)
MaxQty == 4
\* number of contract details a resolution can return
MaxDetails == 2
\* number of connect / is_connected / disconnect requests in one run
MaxOps == 3

\* ---------------------------------------------------------------- inputs
Quantities == (1..MaxQty) \cup {100, -4}
\* stop_price and average_fill_price, in cents
StopPriceInputs == {1000, 1001}
FillPrices == {1100, 1001, 990}
ActionInputs == {"BUY", "SELL", "HOLD"}
OrderTypes == {"Market", "Limit"}
StatusLabels == {"Filled", "Submitted", "Cancelled"}

\* what trade.next().await can yield
TradeMessages ==
    [kind : {"OrderStatus"}, status : StatusLabels, average_fill_price : FillPrices]
    \cup {[kind |-> "OpenOrder"], [kind |-> "Err"]}
TradeEnd == [kind |-> "End"]

VARIABLES
    ib,             \* Connector.ib : Option<Client>, "None" or "Some"
    gatewayUp,      \* what Client::is_connected() answers
    so_pc,          \* position of the submit_order call
    so_args,        \* its arguments
    so_result,      \* its return value (bool, String)
    order,          \* the local `order` it mutates and submits
    stop_prices,    \* the local vec stop_prices (cents)
    stop_sizes,     \* the local vec stop_sizes
    leg,            \* index of the for loop over the stop legs
    trade,          \* the messages trade.next() has handed out so far
    orders,         \* the place_order calls made on the client, in order
    md_pc,          \* position of the market_data call
    md_result,      \* its return value: None or Some(price in cents)
    subbed_hash,    \* subbed_hash.get(ticker): "Empty", or the Result "Ok" / "Err"
    attempt,        \* iterations of `for _ in 0..10` completed
    current_price,  \* the local current_price
    chan,           \* what the subscription has ready for next(): NoTick or a tick
    resolves,       \* contract_details calls made by market_data
    subsOpened,     \* subscribe calls that returned a subscription
    cancels,        \* cancel calls made on the subscription
    loopReads,      \* next() calls made inside the polling loop
    finalReads,     \* next() calls made after the loop
    firstPos,       \* the first price tick > 0 that next() handed out, or None
    firstPosAt,     \* the number of the read that handed it out, or 0
    lastRead,       \* the tick the latest next() call handed out, or NoTick
    resolved,       \* what contract_details answered to market_data, or None
    session_log     \* the connect / is_connected / disconnect requests served, with
                    \* what each returned

ordervars == <<so_pc, so_args, so_result, order, stop_prices, stop_sizes, leg,
               trade, orders>>
quotevars == <<md_pc, md_result, subbed_hash, attempt, current_price, chan, resolves,
               subsOpened, cancels, loopReads, finalReads, firstPos, firstPosAt,
               lastRead, resolved>>
sessionvars == <<session_log>>
vars == <<ib, gatewayUp, ordervars, quotevars, sessionvars>>

\* ---------------------------------------------------------------- arithmetic
\* i32 division of Rust: truncates toward zero
TruncDiv(a, b) ==
    IF a >= 0 THEN a \div b ELSE -((-a) \div b)

\* f64::round of the rational n/m (m > 0): nearest integer, half away from zero
RoundDiv(n, m) ==
    IF n >= 0 THEN (2 * n + m) \div (2 * m) ELSE -((2 * (-n) + m) \div (2 * m))

\* round(x, 2) of the price x = n/m cents, in cents
Round2(n, m) == RoundDiv(n, m)

\* ---------------------------------------------------------------- connector
\* the values of Connector.ib the shared connector can hold when a request arrives
CONNECTOR == {"None", "Some"}

\* variant: a held handle counts as connected whatever the client answers
is_connected_HandleOnly ==
    ib = "Some"

is_connected ==
    IF ib = "Some" THEN gatewayUp ELSE FALSE

\* Order::default()
OrderDefault ==
    [action |-> "Buy", order_type |-> "", total_quantity |-> 0, aux_price |-> None]

\* order.action of the market leg
MarketAction(action) ==
    CASE action = "BUY" -> "Buy"
      [] action = "SELL" -> "Sell"
      [] OTHER -> "Buy"

\* order.action of a stop leg
StopAction(action) ==
    IF action = "BUY" THEN "Buy" ELSE "Sell"

\* price_diff, in cents
PriceDiff(action, stop_price, avg_fill_price) ==
    IF action = "BUY" THEN avg_fill_price - stop_price
                      ELSE stop_price - avg_fill_price

\* (stop_price +- price_diff * k / 3.0 * 100.0).round() / 100.0, in cents:
\* the dollar value stop_price/100 +- (price_diff/100)*k/3*100 is rounded to an
\* integer and that integer is divided by 100, i.e. it is the result in cents
ScaledStop(action, stop_price, price_diff, k) ==
    IF action = "BUY"
    THEN RoundDiv(3 * stop_price + 100 * k * price_diff, 300)
    ELSE RoundDiv(3 * stop_price - 100 * k * price_diff, 300)

StopPrices(action, stop_price, avg_fill_price) ==
    LET price_diff == PriceDiff(action, stop_price, avg_fill_price)
    IN  << ScaledStop(action, stop_price, price_diff, 2),
           ScaledStop(action, stop_price, price_diff, 1),
           RoundDiv(stop_price * 100, 100) >>

\* variant: the last leg gets a third too, the remainder is lost
StopSizes_NoRemainder(qty) ==
    << TruncDiv(qty, 3), TruncDiv(qty, 3), TruncDiv(qty, 3) >>

StopSizes(qty) ==
    << TruncDiv(qty, 3), TruncDiv(qty, 3), qty - 2 * TruncDiv(qty, 3) >>

MsgNotConnected == "Not connected to IB Gateway"
MsgNotFilled == "Market order was not filled."
MsgError == "Error placing order"
MsgFallThrough == "Order submission logic not yet implemented."

\* ---------------------------------------------------------------- submit_order
NoArgs == [qty |-> 0, stop_price |-> 0, action |-> "", order_type |-> ""]

InitOrder ==
    /\ so_pc = "idle"
    /\ so_args = NoArgs
    /\ so_result = None
    /\ order = OrderDefault
    /\ stop_prices = <<>>
    /\ stop_sizes = <<>>
    /\ leg = 0
    /\ trade = <<>>
    /\ orders = <<>>

Return(success, message) ==
    /\ so_pc' = "returned"
    /\ so_result' = <<success, message>>

\* entry of submit_order up to the first trade.next().await
SubmitOrderCall(qty, stop_price, action, order_type, placeOk) ==
    /\ so_pc = "idle"
    /\ so_args' = [qty |-> qty, stop_price |-> stop_price, action |-> action,
                   order_type |-> order_type]
    /\ UNCHANGED <<ib, gatewayUp, stop_prices, stop_sizes, leg, trade>>
    /\ UNCHANGED <<quotevars, sessionvars>>
    /\ IF ~is_connected
       THEN /\ Return(FALSE, MsgNotConnected)
            /\ UNCHANGED <<order, orders>>
       ELSE IF order_type = "Market"
       THEN /\ order' = [OrderDefault EXCEPT !.action = MarketAction(action)]
            /\ orders' = Append(orders, [order |-> order', ok |-> placeOk])
            /\ so_pc' = IF placeOk THEN "trade" ELSE "panicked"
            /\ UNCHANGED so_result
       ELSE /\ Return(TRUE, MsgFallThrough)
            /\ UNCHANGED <<order, orders>>

\* one iteration of `while let Some(status) = trade.next().await`
TradeNext(msg) ==
    /\ so_pc = "trade"
    /\ IF Len(trade) < MaxStatus THEN msg \in TradeMessages \cup {TradeEnd}
                                 ELSE msg = TradeEnd
    /\ trade' = IF msg = TradeEnd THEN trade ELSE Append(trade, msg)
    /\ UNCHANGED <<ib, gatewayUp, so_args, order, orders>>
    /\ UNCHANGED <<quotevars, sessionvars>>
    /\ CASE msg.kind = "End" ->
              /\ Return(TRUE, MsgFallThrough)
              /\ UNCHANGED <<stop_prices, stop_sizes, leg>>
         [] msg.kind = "Err" ->
              /\ Return(FALSE, MsgError)
              /\ UNCHANGED <<stop_prices, stop_sizes, leg>>
         [] msg.kind = "OpenOrder" ->
              UNCHANGED <<so_pc, so_result, stop_prices, stop_sizes, leg>>
         [] msg.kind = "OrderStatus" ->
              IF msg.status # "Filled"
              THEN /\ Return(FALSE, MsgNotFilled)
                   /\ UNCHANGED <<stop_prices, stop_sizes, leg>>
              ELSE /\ stop_prices' = StopPrices(so_args.action, so_args.stop_price,
                                                msg.average_fill_price)
                   /\ stop_sizes' = StopSizes(so_args.qty)
                   /\ leg' = 1
                   /\ so_pc' = "stops"
                   /\ UNCHANGED so_result

\* variant: the ladder is walked from the stop toward the entry
PlaceStop_Reversed(placeOk) ==
    /\ so_pc = "stops"
    /\ order' = [order EXCEPT !.action = StopAction(so_args.action),
                              !.order_type = "STOP",
                              !.total_quantity = stop_sizes[4 - leg],
                              !.aux_price = Some(stop_prices[4 - leg])]
    /\ orders' = Append(orders, [order |-> order', ok |-> placeOk])
    /\ IF leg < 3 THEN /\ leg' = leg + 1
                       /\ so_pc' = "stops"
                  ELSE /\ leg' = 0
                       /\ so_pc' = "trade"
    /\ UNCHANGED <<ib, gatewayUp, so_args, so_result, stop_prices, stop_sizes, trade>>
    /\ UNCHANGED <<quotevars, sessionvars>>

\* one iteration of `for (sp, sq) in stop_prices.iter().zip(stop_sizes.iter())`
PlaceStop(placeOk) ==
    /\ so_pc = "stops"
    /\ order' = [order EXCEPT !.action = StopAction(so_args.action),
                              !.order_type = "STOP",
                              !.total_quantity = stop_sizes[leg],
                              !.aux_price = Some(stop_prices[leg])]
    /\ orders' = Append(orders, [order |-> order', ok |-> placeOk])
    /\ IF leg < 3 THEN /\ leg' = leg + 1
                       /\ so_pc' = "stops"
                  ELSE /\ leg' = 0
                       /\ so_pc' = "trade"
    /\ UNCHANGED <<ib, gatewayUp, so_args, so_result, stop_prices, stop_sizes, trade>>
    /\ UNCHANGED <<quotevars, sessionvars>>

\* ---------------------------------------------------------------- market_data
\* number of iterations of `for _ in 0..10`
PollAttempts == 10

\* contract_details returned by the client: a detail whose symbol differs from the
\* ticker ("other"), or one that matches and whose subscribe() then returns Ok or Err
DetailKinds == {"other", "matchOk", "matchErr"}
DetailSeqs == UNION {[1..n -> DetailKinds] : n \in 0..MaxDetails}
Resolutions == {[ok |-> FALSE, details |-> <<>>]} \cup [ok : {TRUE}, details : DetailSeqs]

\* what subbed.next().await can yield, prices in cents
TickPrices == {-100, 0, 15000, 15025}
Ticks == [kind : {"Price"}, price : TickPrices]
         \cup {[kind |-> "Size"], [kind |-> "Err"], [kind |-> "End"]}

\* nothing is ready on the subscription: next() waits
NoTick == [kind |-> "empty"]

InitQuote ==
    /\ md_pc = "idle"
    /\ md_result = None
    /\ subbed_hash = "Empty"
    /\ attempt = 0
    /\ current_price = None
    /\ chan = NoTick
    /\ resolves = 0
    /\ subsOpened = 0
    /\ cancels = 0
    /\ loopReads = 0
    /\ finalReads = 0
    /\ firstPos = None
    /\ firstPosAt = 0
    /\ lastRead = NoTick
    /\ resolved = None

\* variant: every detail returned is taken, whatever its symbol
Matches_AnySymbol(details) == DOMAIN details

\* the details whose contract.symbol equals the ticker
Matches(details) == {i \in DOMAIN details : details[i] # "other"}

\* the entry left in subbed_hash by the loop over the details: every matching detail
\* inserts under the same key, so the last one stays
SubbedAfter(details) ==
    IF Matches(details) = {} THEN "Empty"
    ELSE LET last == CHOOSE i \in Matches(details) : \A j \in Matches(details) : j <= i
         IN  IF details[last] = "matchOk" THEN "Ok" ELSE "Err"

\* variant: a zero price passes the test
Usable_ZeroAccepted(tick) == tick.kind = "Price" /\ tick.price >= 0

\* the test `p.price > 0.0` on a Price tick
Usable(tick) == tick.kind = "Price" /\ tick.price > 0

\* bookkeeping of a read that hands out `tick`
NoteRead(tick) ==
    /\ lastRead' = tick
    /\ IF firstPos = None /\ tick.kind = "Price" /\ tick.price > 0
       THEN /\ firstPos' = Some(tick.price)
            /\ firstPosAt' = loopReads + finalReads + 1
       ELSE UNCHANGED <<firstPos, firstPosAt>>

\* a tick that was read is gone; the end of the stream stays
Consume == chan' = IF chan.kind = "End" THEN chan ELSE NoTick

\* entry of market_data up to the warm-up sleep
MarketDataCall(resolution) ==
    /\ md_pc = "idle"
    /\ UNCHANGED <<ib, gatewayUp, ordervars, sessionvars>>
    /\ UNCHANGED <<md_result, attempt, current_price, chan, cancels, loopReads,
                   finalReads, firstPos, firstPosAt, lastRead>>
    /\ IF ib = "None"
       THEN /\ md_pc' = "panicked"
            /\ UNCHANGED <<subbed_hash, resolves, subsOpened, resolved>>
       ELSE /\ resolves' = resolves + 1
            /\ resolved' = Some(resolution)
            /\ md_pc' = "polling"
            /\ IF ~resolution.ok
               THEN UNCHANGED <<subbed_hash, subsOpened>>
               ELSE /\ subbed_hash' = SubbedAfter(resolution.details)
                    /\ subsOpened' = subsOpened
                          + Cardinality({i \in DOMAIN resolution.details :
                                            resolution.details[i] = "matchOk"})

\* the gateway delivers a tick, or ends the stream, on the open subscription
TickArrives(tick) ==
    /\ md_pc \in {"polling", "after"}
    /\ subbed_hash = "Ok"
    /\ chan = NoTick
    /\ chan' = tick
    /\ UNCHANGED <<ib, gatewayUp, ordervars, sessionvars>>
    /\ UNCHANGED <<md_pc, md_result, subbed_hash, attempt, current_price, resolves,
                   subsOpened, cancels, loopReads, finalReads, firstPos, firstPosAt,
                   lastRead, resolved>>

\* variant: the loop gives up one iteration early
NextIteration_OneShort ==
    /\ attempt' = attempt + 1
    /\ md_pc' = IF attempt + 1 < PollAttempts - 1 THEN "polling" ELSE "after"

\* where the loop goes after an iteration that did not break
NextIteration ==
    /\ attempt' = attempt + 1
    /\ md_pc' = IF attempt + 1 < PollAttempts THEN "polling" ELSE "after"

\* one iteration of `for _ in 0..10`
PollAttempt ==
    /\ md_pc = "polling"
    /\ UNCHANGED <<ib, gatewayUp, ordervars, sessionvars>>
    /\ UNCHANGED <<md_result, subbed_hash, resolves, subsOpened, cancels, finalReads,
                   resolved>>
    /\ CASE subbed_hash = "Empty" ->
              /\ NextIteration
              /\ UNCHANGED <<current_price, chan, loopReads, firstPos, firstPosAt,
                             lastRead>>
         [] subbed_hash = "Err" ->
              /\ md_pc' = "panicked"
              /\ UNCHANGED <<attempt, current_price, chan, loopReads, firstPos,
                             firstPosAt, lastRead>>
         [] subbed_hash = "Ok" ->
              /\ chan # NoTick
              /\ loopReads' = loopReads + 1
              /\ NoteRead(chan)
              /\ Consume
              /\ CASE chan.kind = "End" ->
                        /\ NextIteration
                        /\ UNCHANGED current_price
                   [] chan.kind = "Err" ->
                        /\ md_pc' = "panicked"
                        /\ UNCHANGED <<attempt, current_price>>
                   [] chan.kind = "Price" ->
                        IF Usable(chan)
                        THEN /\ current_price' = Some(chan.price)
                             /\ md_pc' = "after"
                             /\ UNCHANGED attempt
                        ELSE /\ NextIteration
                             /\ UNCHANGED current_price
                   [] OTHER ->
                        /\ NextIteration
                        /\ UNCHANGED current_price

\* `match current_price` after the loop
AfterLoop ==
    /\ md_pc = "after"
    /\ UNCHANGED <<ib, gatewayUp, ordervars, sessionvars>>
    /\ UNCHANGED <<subbed_hash, attempt, resolves, subsOpened, loopReads, resolved>>
    /\ IF current_price # None
       THEN CASE subbed_hash = "Err" ->
                   /\ md_pc' = "panicked"
                   /\ UNCHANGED <<md_result, current_price, chan, cancels, finalReads,
                                  firstPos, firstPosAt, lastRead>>
              [] OTHER ->
                   /\ cancels' = IF subbed_hash = "Ok" THEN cancels + 1 ELSE cancels
                   /\ md_result' = current_price
                   /\ md_pc' = "returned"
                   /\ UNCHANGED <<current_price, chan, finalReads, firstPos, firstPosAt,
                                  lastRead>>
       ELSE CASE subbed_hash = "Empty" ->
                   /\ md_result' = None
                   /\ md_pc' = "returned"
                   /\ UNCHANGED <<current_price, chan, cancels, finalReads, firstPos,
                                  firstPosAt, lastRead>>
              [] subbed_hash = "Err" ->
                   /\ md_pc' = "panicked"
                   /\ UNCHANGED <<md_result, current_price, chan, cancels, finalReads,
                                  firstPos, firstPosAt, lastRead>>
              [] subbed_hash = "Ok" ->
                   /\ chan # NoTick
                   /\ finalReads' = finalReads + 1
                   /\ NoteRead(chan)
                   /\ Consume
                   /\ UNCHANGED cancels
                   /\ CASE chan.kind = "Err" ->
                             /\ md_pc' = "panicked"
                             /\ UNCHANGED <<md_result, current_price>>
                        [] chan.kind = "Price" /\ Usable(chan) ->
                             /\ current_price' = Some(chan.price)
                             /\ md_result' = Some(chan.price)
                             /\ md_pc' = "returned"
                        [] OTHER ->
                             /\ md_result' = None
                             /\ md_pc' = "returned"
                             /\ UNCHANGED current_price

QuoteNext ==
    \/ \E resolution \in Resolutions : MarketDataCall(resolution)
    \/ \E tick \in Ticks : TickArrives(tick)
    \/ PollAttempt
    \/ AfterLoop

\* ---------------------------------------------------------------- session
Served(op, result) ==
    /\ Len(session_log) < MaxOps
    /\ session_log' = Append(session_log, [op |-> op, result |-> result])

\* connect: Client::connect succeeds or fails, the client it returns is dropped
Connect(ok) ==
    /\ Served("connect", ok)
    /\ UNCHANGED <<ib, gatewayUp, ordervars, quotevars>>

\* the /is_connected handler
IsConnected ==
    /\ Served("is_connected", is_connected)
    /\ UNCHANGED <<ib, gatewayUp, ordervars, quotevars>>

\* variant: the handle is unwrapped before it is cleared, which fails when it is empty
Disconnect_Unwrap ==
    /\ Served("disconnect", ib = "Some")
    /\ ib' = "None"
    /\ gatewayUp' = FALSE
    /\ UNCHANGED <<ordervars, quotevars>>

\* disconnect: clears the handle if there is one; result TRUE = it came back
Disconnect ==
    /\ Served("disconnect", TRUE)
    /\ IF ib = "Some"
       THEN /\ ib' = "None"
            /\ gatewayUp' = FALSE
       ELSE UNCHANGED <<ib, gatewayUp>>
    /\ UNCHANGED <<ordervars, quotevars>>

\* ---------------------------------------------------------------- router
\* the /order handler is between CONNECTOR.read() and its return
InFlightOrder == so_pc \in {"trade", "stops"}

\* the /market_data handler is between CONNECTOR.read() and its return
InFlightQuote == md_pc \in {"polling", "after"}

\* the read guards held on CONNECTOR: a handler keeps its guard `ib` over every
\* await of the connector call and drops it when it returns or unwinds
ReadGuards ==
    (IF InFlightOrder THEN 1 ELSE 0) + (IF InFlightQuote THEN 1 ELSE 0)

\* CONNECTOR.write() is granted only while no guard is held
WriteGranted == ReadGuards = 0

\* variant: the handler asks for the shared guard, which is granted beside the others
RouterDisconnect_SharedGuard == Disconnect

\* the /disconnect handler: CONNECTOR.write().await, then disconnect()
RouterDisconnect ==
    /\ WriteGranted
    /\ Disconnect

Init ==
    /\ session_log = <<>>
    /\ ib \in CONNECTOR
    /\ gatewayUp \in BOOLEAN
    /\ ib = "None" => gatewayUp = FALSE
    /\ InitOrder
    /\ InitQuote

Next ==
    \/ \E qty \in Quantities, stop_price \in StopPriceInputs, action \in ActionInputs,
          order_type \in OrderTypes, placeOk \in BOOLEAN :
            SubmitOrderCall(qty, stop_price, action, order_type, placeOk)
    \/ \E msg \in TradeMessages \cup {TradeEnd} : TradeNext(msg)
    \/ \E placeOk \in BOOLEAN : PlaceStop(placeOk)

Spec == Init /\ [][Next]_vars

QuoteSpec == Init /\ [][QuoteNext]_vars

SessionNext ==
    \/ \E ok \in BOOLEAN : Connect(ok)
    \/ IsConnected
    \/ Disconnect

SessionSpec == Init /\ [][SessionNext]_vars

\* the handlers running side by side on one connector, each on one representative
\* request
LockNext ==
    \/ \E placeOk \in BOOLEAN : SubmitOrderCall(100, 1000, "BUY", "Market", placeOk)
    \/ \E msg \in {[kind |-> "OrderStatus", status |-> "Filled", average_fill_price |-> 1100],
                   [kind |-> "OrderStatus", status |-> "Cancelled", average_fill_price |-> 1100],
                   TradeEnd} : TradeNext(msg)
    \/ PlaceStop(TRUE)
    \/ \E resolution \in {[ok |-> TRUE, details |-> <<"matchOk">>],
                          [ok |-> FALSE, details |-> <<>>]} : MarketDataCall(resolution)
    \/ \E tick \in {[kind |-> "Price", price |-> 15000], [kind |-> "Size"]} :
          TickArrives(tick)
    \/ PollAttempt
    \/ AfterLoop
    \/ RouterDisconnect

LockSpec == Init /\ [][LockNext]_vars

\* the runtime keeps polling a task that can make progress; the gateway owes nothing
QuoteFairSpec == QuoteSpec /\ WF_vars(PollAttempt) /\ WF_vars(AfterLoop)
                           /\ WF_vars(\E resolution \in Resolutions : MarketDataCall(resolution))

TypeOK ==
    /\ so_pc \in {"idle", "trade", "stops", "returned", "panicked"}
    /\ leg \in 0..3
    /\ md_pc \in {"idle", "polling", "after", "returned", "panicked"}
    /\ attempt \in 0..PollAttempts

\* ================================================================ properties
\* the stop orders among the place_order calls, in submission order
StopOrders == SelectSeq(orders, LAMBDA o : o.order.order_type = "STOP")

IsFilled(msg) == msg.kind = "OrderStatus" /\ msg.status = "Filled"
FilledSeen == Cardinality({i \in DOMAIN trade : IsFilled(trade[i])})
ErrSeen == \E i \in DOMAIN trade : trade[i].kind = "Err"

\* the market leg was placed and its status stream opened
MarketPlaced == orders # <<>> /\ orders[1].ok

\* the prices section 4.2 of the specification asks for, in cents
LadderPrices(stop_price, avg_fill_price) ==
    << Round2(3 * stop_price + 2 * (avg_fill_price - stop_price), 3),
       Round2(3 * stop_price + (avg_fill_price - stop_price), 3),
       Round2(stop_price, 1) >>

\* the fill being processed while the stop legs are placed
CurrentFill == trade[Len(trade)].average_fill_price

\* C1: a submit_order call whose market leg never reports "Filled" (the stream may
\* deliver nothing at all before it ends) returns (false, "Market order was not
\* filled.") and has submitted no stop order.
C1_UnfilledReturnsNotFilled ==
    (so_pc = "returned" /\ MarketPlaced /\ FilledSeen = 0 /\ ~ErrSeen)
        => /\ so_result = <<FALSE, "Market order was not filled.">>
           /\ Len(StopOrders) = 0

\* C2: for Buy and Sell the three stop prices computed after a fill are
\* round2(stop + sign*diff*2/3), round2(stop + sign*diff*1/3), round2(stop); Buy,
\* 100 shares, stop 10.00, fill 11.00 gives 10.67, 10.33, 10.00 with sizes 33, 33, 34.
C2_StopPricesAreLadder ==
    (so_pc = "stops" /\ so_args.action \in {"BUY", "SELL"})
        => /\ stop_prices = LadderPrices(so_args.stop_price, CurrentFill)
           /\ (so_args.action = "BUY" /\ so_args.qty = 100 /\ so_args.stop_price = 1000
                 /\ CurrentFill = 1100)
                => (stop_prices = <<1067, 1033, 1000>> /\ stop_sizes = <<33, 33, 34>>)

\* C3: for a quantity q > 0 the stop legs have q1 = q2 = floor(q/3) and
\* q1 + q2 + q3 = q, in the computed sizes and in every group of three stop orders
\* that was submitted.
C3_SizesPartitionQuantity ==
    so_args.qty > 0 =>
        /\ stop_sizes # <<>> =>
              /\ stop_sizes[1] = so_args.qty \div 3
              /\ stop_sizes[2] = so_args.qty \div 3
              /\ stop_sizes[1] + stop_sizes[2] + stop_sizes[3] = so_args.qty
        /\ \A g \in 1..(Len(StopOrders) \div 3) :
              LET q(k) == StopOrders[3 * (g - 1) + k].order.total_quantity
              IN  /\ q(1) = so_args.qty \div 3
                  /\ q(2) = so_args.qty \div 3
                  /\ q(1) + q(2) + q(3) = so_args.qty

\* a call with 100 shares has submitted its three stop legs of 33, 33 and 34 shares
C3_Witness ==
    /\ so_args.qty = 100
    /\ Len(StopOrders) = 3
    /\ StopOrders[1].order.total_quantity = 33
    /\ StopOrders[2].order.total_quantity = 33
    /\ StopOrders[3].order.total_quantity = 34

\* C4: when price_diff > 0 the stop prices satisfy p3 = round2(stop), p1 strictly
\* between p3 and the fill price, and p1, p2, p3 ordered from the entry toward the
\* stop (descending for Buy, ascending for Sell).
C4_LadderOrdered ==
    (/\ so_pc = "stops"
     /\ so_args.action \in {"BUY", "SELL"}
     /\ PriceDiff(so_args.action, so_args.stop_price, CurrentFill) > 0)
        => /\ stop_prices[3] = Round2(so_args.stop_price, 1)
           /\ IF so_args.action = "BUY"
              THEN /\ stop_prices[3] < stop_prices[1] /\ stop_prices[1] < CurrentFill
                   /\ stop_prices[1] >= stop_prices[2] /\ stop_prices[2] >= stop_prices[3]
              ELSE /\ stop_prices[3] > stop_prices[1] /\ stop_prices[1] > CurrentFill
                   /\ stop_prices[1] <= stop_prices[2] /\ stop_prices[2] <= stop_prices[3]

\* C5: whatever the status stream delivers, one submit_order call submits zero or
\* exactly three stop orders, never more.
C5_ZeroOrThreeStops ==
    /\ Len(StopOrders) <= 3
    /\ so_pc = "returned" => Len(StopOrders) \in {0, 3}

\* next() calls made on the quote subscription by the acquisition
Reads == loopReads + finalReads

\* C6: market_data returns the first price tick > 0 it reads and reads nothing after
\* it: when that tick comes on read k <= 10, exactly k reads are made, all in the
\* polling loop, and the value returned is its price; no other tick is ever returned.
C6_FirstPositiveEndsPolling ==
    /\ firstPos # None => Reads = firstPosAt
    /\ (firstPos # None /\ firstPosAt <= 10) => (loopReads = firstPosAt /\ finalReads = 0)
    /\ md_result # None => (md_pc = "returned" /\ md_result = firstPos)
    /\ (md_pc = "returned" /\ firstPos # None) => md_result = firstPos

\* the first positive price came on the third read: three reads, that price returned
C6_Witness ==
    /\ md_pc = "returned"
    /\ firstPosAt = 3
    /\ loopReads = 3
    /\ finalReads = 0
    /\ md_result = Some(15025)

\* C7: an acquisition that read no price tick > 0, neither in the 10 attempts nor in
\* the final read, returns None; it makes at most 11 reads, and the final read is
\* made only after all 10 attempts went by without a usable price.
C7_BoundedReadsThenAbsent ==
    /\ (md_pc = "returned" /\ firstPos = None) => md_result = None
    /\ loopReads <= 10
    /\ finalReads <= 1
    /\ Reads <= 11
    /\ finalReads = 1 => (attempt = 10 /\ loopReads = 10 /\ firstPosAt \in {0, 11})

\* ten attempts and the final read all went by without a usable price
C7_Witness ==
    /\ md_pc = "returned"
    /\ loopReads = 10
    /\ finalReads = 1
    /\ firstPos = None
    /\ md_result = None

\* C8: every poll attempt is bounded by a timeout, so an acquisition that started
\* polling on a held session always ends (with a price, with None, or at worst by
\* failing), even when the tick stream never delivers anything and never ends.
C8_AcquisitionEnds ==
    (md_pc = "polling") ~> (md_pc \in {"returned", "panicked"})

\* C9: market_data called while the handle is empty returns None: it does not
\* crash and makes no contract resolution, subscription or read.
C9_NoSessionReturnsAbsent ==
    (ib = "None" /\ md_pc # "idle")
        => /\ md_pc = "returned"
           /\ md_result = None
           /\ resolves = 0
           /\ subsOpened = 0
           /\ Reads = 0

\* C10 as stated: called without a connected session, submit_order returns
\* (false, "Not connected") and submits no order.
C10_NotConnectedMessage ==
    (so_pc # "idle" /\ (ib = "None" \/ ~gatewayUp))
        => /\ so_pc = "returned"
           /\ so_result = <<FALSE, "Not connected">>
           /\ orders = <<>>

\* C10 amended: called without a connected session, submit_order returns at once
\* (false, "Not connected to IB Gateway"), having submitted no market order and no
\* stop order and read no order status.
C10_NotConnectedFailsFast ==
    (so_pc # "idle" /\ (ib = "None" \/ ~gatewayUp))
        => /\ so_pc = "returned"
           /\ so_result = <<FALSE, "Not connected to IB Gateway">>
           /\ orders = <<>>
           /\ trade = <<>>

\* a market order was requested on a handle whose gateway connection is down
C10_Witness ==
    /\ so_pc = "returned"
    /\ ib = "Some" /\ ~gatewayUp
    /\ so_args.order_type = "Market"
    /\ so_result[1] = FALSE

\* ---------------------------------------------------------------- C11 .. C20
\* the messages submit_order can return: each is a fixed text, none of them is
\* built from the arguments or from the fill
FixedMessages == {MsgNotConnected, MsgNotFilled, MsgError, MsgFallThrough}

\* all stop orders submitted so far were accepted
AllStopsAccepted == \A i \in DOMAIN StopOrders : StopOrders[i].ok

\* C11: when the market leg reached "Filled" and the three stop legs were submitted
\* without a submission error, submit_order returns success = true with a message
\* that summarizes action, quantity, ticker and fill price of the bracket.
C11_FilledBracketReportsSuccess ==
    (/\ so_pc = "returned"
     /\ FilledSeen >= 1
     /\ Len(StopOrders) >= 3
     /\ AllStopsAccepted
     /\ ~ErrSeen)
        => /\ so_result[1] = TRUE
           /\ so_result[2] \notin FixedMessages

\* C12: when the submission of stop leg k fails, submit_order returns success =
\* false, and no leg after k is submitted (the legs before k stay as they are).
C12_FailedLegAborts ==
    \A k \in DOMAIN StopOrders :
        ~StopOrders[k].ok
            => /\ Len(StopOrders) = k
               /\ so_pc = "returned" => so_result[1] = FALSE

\* C13: whenever market_data returns a price (found in one of the 10 attempts or in
\* the final read), it has cancelled the quote subscription before returning.
C13_PriceReturnedAfterCancel ==
    (md_pc = "returned" /\ md_result # None) => cancels >= 1

\* the subscription could not be opened, or it handed out a read error
SubscriptionFailed ==
    \/ md_pc # "idle" /\ subbed_hash = "Err"
    \/ lastRead.kind = "Err"

\* C14: a read error on the quote stream, or a failure to open the subscription,
\* ends the acquisition with "no data": market_data does not crash and what it
\* returns is None.
C14_ReadErrorGivesNoData ==
    SubscriptionFailed
        => /\ md_pc # "panicked"
           /\ md_pc = "returned" => md_result = None

\* contract_details failed, or none of the contracts it returned has the ticker's symbol
NoContract ==
    /\ resolved # None
    /\ \/ ~resolved[1].ok
       \/ \A i \in DOMAIN resolved[1].details : resolved[1].details[i] = "other"

\* C15: on a held session, when the resolution fails or gives no contract with the
\* ticker's symbol, market_data opens no subscription, reads no tick, does not fail
\* and returns None.
C15_NoContractNoData ==
    NoContract
        => /\ subbed_hash = "Empty"
           /\ subsOpened = 0
           /\ Reads = 0
           /\ cancels = 0
           /\ md_pc # "panicked"
           /\ md_pc = "returned" => md_result = None

\* the resolution returned two contracts of other symbols and the call returned None
C15_Witness ==
    /\ md_pc = "returned"
    /\ resolved = Some([ok |-> TRUE, details |-> <<"other", "other">>])
    /\ attempt = 10
    /\ md_result = None

\* C16: whatever the action string ("BUY", "SELL" or anything else), every stop leg
\* carries the same Buy/Sell action as the market order of the same call.
C16_StopsUseEntryAction ==
    \A i \in DOMAIN orders :
        orders[i].order.order_type = "STOP"
            => orders[i].order.action = orders[1].order.action

\* the requests that make or end a session: a connect that returned true, a disconnect
Lifecycle == {i \in DOMAIN session_log :
                 \/ session_log[i].op = "disconnect"
                 \/ session_log[i].op = "connect" /\ session_log[i].result}

\* C17: after connect returned true and before any disconnect the connector holds a
\* session and is_connected reports true while the gateway connection is up; after
\* disconnect is_connected reports false.
C17_ConnectCreatesSession ==
    Lifecycle # {} =>
        LET last == CHOOSE i \in Lifecycle : \A j \in Lifecycle : j <= i
        IN  /\ IF session_log[last].op = "connect"
               THEN ib = "Some" /\ (gatewayUp => is_connected)
               ELSE ib = "None" /\ ~is_connected
            /\ \A i \in DOMAIN session_log :
                  (i > last /\ session_log[i].op = "is_connected")
                      => session_log[i].result = (session_log[last].op = "connect")

\* the step is a disconnect request being served
DisconnectStep ==
    /\ Len(session_log') = Len(session_log) + 1
    /\ session_log'[Len(session_log')].op = "disconnect"

\* C18: disconnect while no session is held does not fail and changes nothing: the
\* handle stays empty and is_connected stays false; after any disconnect the handle
\* is empty, so a repeated disconnect is such a no-op.
C18_DisconnectWithoutSessionIsNoOp ==
    [][DisconnectStep =>
          /\ ib' = "None"
          /\ ~is_connected'
          /\ ib = "None" =>
                /\ session_log'[Len(session_log')].result = TRUE
                /\ ib' = ib
                /\ gatewayUp' = gatewayUp
                /\ ~is_connected]_vars

\* disconnect was served twice in a row, the second time with nothing to clear
C18_Witness ==
    /\ Len(session_log) >= 2
    /\ session_log[1].op = "disconnect"
    /\ session_log[2].op = "disconnect"
    /\ session_log[2].result = TRUE
    /\ ib = "None"

\* C19: the first order submit_order places on a connected session is a Market
\* order with the requested action and the full requested quantity.
C19_MarketLegCarriesQuantity ==
    (so_args.qty > 0 /\ MarketPlaced)
        => /\ orders[1].order.order_type \in {"MKT", "Market"}
           /\ orders[1].order.total_quantity = so_args.qty
           /\ so_args.action = "BUY" => orders[1].order.action = "Buy"
           /\ so_args.action = "SELL" => orders[1].order.action = "Sell"

\* a status that is neither "Filled" nor final: the order is still working
IsIntermediate(msg) == msg.kind = "OrderStatus" /\ msg.status = "Submitted"

\* C20: the status stream is consumed until a terminal status: an intermediate
\* status does not end the call, so that a "Filled" status after it is still read
\* and the stream [intermediate, Filled] gets its three stop legs.
C20_IntermediateStatusKeepsWaiting ==
    (trade # <<>> /\ IsIntermediate(trade[Len(trade)]))
        => /\ so_pc = "trade"
           /\ so_result = None

\* ---------------------------------------------------------------- C21 .. C25
\* the "Filled" statuses read so far, in order
Fills == SelectSeq(trade, IsFilled)

\* C21: no stop order is submitted before a "Filled" status of the market leg was
\* read; the legs of a fill go out in the order (p1,q1), (p2,q2), (p3,q3), and all
\* three go out before anything else is awaited (no status is read in between).
C21_StopsFollowFillInOrder ==
    /\ \A i \in DOMAIN StopOrders :
          LET g == ((i - 1) \div 3) + 1
              k == ((i - 1) % 3) + 1
          IN  /\ g <= Len(Fills)
              /\ StopOrders[i].order.aux_price =
                    Some(StopPrices(so_args.action, so_args.stop_price,
                                    Fills[g].average_fill_price)[k])
              /\ StopOrders[i].order.total_quantity = StopSizes(so_args.qty)[k]
    /\ so_pc = "stops" =>
          /\ IsFilled(trade[Len(trade)])
          /\ Len(StopOrders) = 3 * (Len(Fills) - 1) + (leg - 1)
    /\ so_pc # "stops" => Len(StopOrders) = 3 * Len(Fills)

\* one fill, its three legs submitted, of three different prices and sizes 33, 33, 34
C21_Witness ==
    /\ so_pc = "returned"
    /\ Len(Fills) = 1
    /\ Len(StopOrders) = 3
    /\ so_args.qty = 100
    /\ StopOrders[1].order.aux_price # StopOrders[2].order.aux_price
    /\ StopOrders[2].order.aux_price # StopOrders[3].order.aux_price
    /\ StopOrders[3].order.total_quantity = 34

\* C22: whatever the resolution returns, also several contracts with the ticker's
\* symbol, one market_data call opens exactly one quote subscription when a contract
\* matches, and never more than one.
C22_OneSubscription ==
    /\ subsOpened <= 1
    /\ (/\ resolved # None
        /\ resolved[1].ok
        /\ \A i \in DOMAIN resolved[1].details : resolved[1].details[i] # "matchErr"
        /\ \E j \in DOMAIN resolved[1].details : resolved[1].details[j] = "matchOk")
          => subsOpened = 1

C24_OrdersHavePositiveQuantity ==
    so_args.qty > 0 =>
        \A i \in DOMAIN orders :
            /\ orders[i].order.total_quantity > 0
            /\ orders[i].order.order_type = "STOP" => orders[i].order.aux_price # None

\* C25: submit_order reports success only when, in that call, a market order was
\* submitted, a "Filled" status was read and three stop orders were submitted; a call
\* for another order type, or one whose stream ends without a fill, never does.
C25_SuccessMeansBracketPlaced ==
    (so_pc = "returned" /\ so_result[1] = TRUE)
        => /\ so_args.order_type = "Market"
           /\ MarketPlaced
           /\ Len(Fills) >= 1
           /\ Len(StopOrders) >= 3
====
